---- MODULE Spec2Model ----
(***************************************************************************)
(* Flight_Planner: interval scheduling core.                               *)
(*   - runway scheduling by graph colouring (greedy, Welsh-Powell, DSatur) *)
(*   - constrained runway scheduling with delays                            *)
(*   - pilot scheduling under daily-hour and rest limits (single/multi day)*)
(*   - schedule validation                                                  *)
(* Times are integers (minutes for runways, hours for pilots).             *)
(***************************************************************************)
EXTENDS Integers, Sequences, FiniteSets, TLC

\* ---------------------------------------------------------------- bounds
MaxColorTasks == 3
MaxChainTasks == 4
MaxColorStart == 2
MaxColorDur == 2
MaxConTasks == 3
MaxRunways == 2
MaxDutyTasks == 3
MaxPilots == 2
MaxRequestTasks == 2
MaxCalls == 3

\* ---------------------------------------------------------------- state
VARIABLES
    mode,          \* which scheduler this run exercises
    alg,           \* heuristic / algorithm / strategy name
    tasks,         \* the input flight list
    colors,        \* RunwayScheduler: vertex -> runway (0 = not coloured yet)
    uncolored_vertices, \* RunwayScheduler: vertices still to process
    max_runways,   \* ConstrainedRunwayScheduler: size of the runway pool
    order,         \* processing order of the flights (indices into tasks)
    pos,           \* position in order of the flight being processed
    cur_delay,     \* delay accumulated so far by the flight being processed
    runway_id,     \* flight -> runway (0 = not placed yet)
    delayed_by,    \* flight -> realized delay in minutes
    at_ceiling,    \* flights placed after their delay reached the ceiling
    num_pilots,          \* PilotScheduler: size of the pilot pool
    max_daily_hours,     \* configured maximum duty hours per day
    min_rest_hours,      \* configured minimum rest between flights
    total_hours_today,   \* Pilot.total_hours_today, per pilot
    last_flight_end,     \* Pilot.last_flight_end, per pilot (None before any flight)
    assignments,         \* PilotScheduleResult.assignments
    unassigned_flights,  \* PilotScheduleResult.unassigned_flights
    current_pilot_index, \* round-robin pointer (0-based)
    pilots_tried,        \* round-robin loop: pilots found unable to fly the current flight
    cur_day,             \* multi-day: the day being scheduled
    day_pos,             \* multi-day: flights of cur_day processed so far
    hours_before_reset,  \* multi-day: hours each pilot held when cur_day began
    first_result,        \* result of the previous run with the same input, if any
    validated,           \* validate_schedule has run on the result
    violations,          \* what validate_schedule reported
    view,                \* App: the panel shown
    airports,            \* App: ids of the airports loaded on mount
    loading,             \* App: a request of a handler is in progress
    error,               \* App: the message shown, or Null
    source,              \* App: route planner selection
    destination,         \* App: route planner selection
    scheduleDest,        \* App: airport the flights are generated for
    routeResult,         \* App state set from the responses
    generatedFlights,
    scheduleResult,
    pilotScheduleResult,
    multiDayPilotResult,
    constrainedResult,
    algorithmComparison,
    pending,             \* requests awaiting their response, oldest first
    settled,             \* the request that settled in the last step, and how
    generated,           \* flight sets the server has generated so far
    calls,               \* handler calls made so far
    uncaught             \* errors no handler caught

colorVars == <<colors, uncolored_vertices>>
conVars == <<max_runways, cur_delay, runway_id, delayed_by, at_ceiling>>
pilotVars == <<num_pilots, max_daily_hours, min_rest_hours, total_hours_today,
               last_flight_end, assignments, unassigned_flights,
               current_pilot_index, pilots_tried, cur_day, day_pos,
               hours_before_reset, first_result, validated, violations>>
appVars == <<view, airports, loading, error, source, destination, scheduleDest,
             routeResult, generatedFlights, scheduleResult, pilotScheduleResult,
             multiDayPilotResult, constrainedResult, algorithmComparison,
             pending, settled, generated, calls, uncaught>>
coreVars == <<mode, alg, tasks, order, pos, colorVars, conVars, pilotVars>>
vars == <<coreVars, appVars>>

\* ---------------------------------------------------------------- helpers
SeqsUpTo(S, n) == UNION {[1..k -> S] : k \in 0..n}

SetMax(S) == CHOOSE x \in S : \A y \in S : y <= x

SetMin(S) == CHOOSE x \in S : \A y \in S : x <= y

\* ---------------------------------------------------------------- Flight
\* arrival_end = arrival_start + occupancy_time
arrival_end(f) == f.start + f.dur

\* a check that lets a zero occupancy through
ValidFlight_NonNegative(f) == f.dur >= 0 /\ f.prio \in 1..10

\* Flight.__post_init__: ensures occupancy_time > 0 and priority in [1, 10]
ValidFlight(f) == f.dur > 0 /\ f.prio \in 1..10

\* the flight list of a request can be built only if every Flight can
CreateFlights(raw) == \A i \in 1..Len(raw) : ValidFlight(raw[i])

\* a pool of any size is taken, the empty pool included
PoolSuffices_AnySize(strategy, n, raw) == TRUE

\* input-invalid: an empty resource pool where assignment is required, that
\* is, a pilot scheduling request with flights and no pilot
PoolSuffices(strategy, n, raw) ==
    ~(strategy \in {"least_busy", "most_available", "round_robin"}
      /\ n = 0 /\ Len(raw) > 0)

\* a conflict test on closed intervals: touching flights conflict
FLIGHTS_CONFLICT_Closed(a, b) ==
    (a.start <= arrival_end(b)) /\ (arrival_end(a) >= b.start)

\* a conflict test that compares the two starts instead of start against end
FLIGHTS_CONFLICT_StartOnly(a, b) ==
    (a.start < b.start) /\ (arrival_end(a) > b.start)

\* Flight.overlaps_with / FLIGHTS_CONFLICT
FLIGHTS_CONFLICT(a, b) ==
    (a.start < arrival_end(b)) /\ (arrival_end(a) > b.start)

\* ---------------------------------------------------------------- ConflictGraph
Neighbors(ts, v) ==
    {u \in (1..Len(ts)) \ {v} : FLIGHTS_CONFLICT(ts[v], ts[u])}

Degree(ts, v) == Cardinality(Neighbors(ts, v))

\* colours already used by coloured neighbours of v (0 = no colour yet)
NeighborColors(ts, col, v) ==
    {col[u] : u \in {w \in Neighbors(ts, v) : col[w] # 0}}

\* the lowest colour, whatever the neighbours hold
MinAvailableColor_IgnoreNeighbors(ts, col, v) == SetMin(1..Len(ts))

\* colours numbered from 0, which is also the mark of an uncoloured vertex
MinAvailableColor_FromZero(ts, col, v) ==
    SetMin((0..Len(ts)) \ NeighborColors(ts, col, v))

\* color[v] = minimum color in available_colors = {1, 2, 3, ...} minus the
\* colours of the coloured neighbours
MinAvailableColor(ts, col, v) ==
    SetMin((1..Len(ts)) \ NeighborColors(ts, col, v))

\* GREEDY_COLORING: vertices in input order
GreedyNext(ts, U) == SetMin(U)

\* WELSH_POWELL_COLORING: vertices sorted by degree, descending (stable)
WelshPowellNext(ts, U) ==
    LET d == SetMax({Degree(ts, v) : v \in U})
    IN  SetMin({v \in U : Degree(ts, v) = d})

\* DSATUR_COLORING: vertex with max |{colors of colored neighbors}|,
\* ties by degree, then by input order
Saturation(ts, col, v) == Cardinality(NeighborColors(ts, col, v))

\* the least saturated, least connected vertex first
DSaturNext_MinSaturation(ts, col, U) ==
    LET s == SetMin({Saturation(ts, col, v) : v \in U})
        S == {v \in U : Saturation(ts, col, v) = s}
        d == SetMin({Degree(ts, v) : v \in S})
    IN  SetMin({v \in S : Degree(ts, v) = d})

DSaturNext(ts, col, U) ==
    LET s == SetMax({Saturation(ts, col, v) : v \in U})
        S == {v \in U : Saturation(ts, col, v) = s}
        d == SetMax({Degree(ts, v) : v \in S})
    IN  SetMin({v \in S : Degree(ts, v) = d})

NextVertex(h, ts, col, U) ==
    CASE h = "greedy" -> GreedyNext(ts, U)
      [] h = "welsh_powell" -> WelshPowellNext(ts, U)
      [] OTHER -> DSaturNext(ts, col, U)

\* the whole colouring loop of one heuristic, from colouring col with the
\* vertices U still to colour
RECURSIVE RunColoring(_, _, _, _)
RunColoring(h, ts, col, U) ==
    IF U = {} THEN col
    ELSE LET v == NextVertex(h, ts, col, U)
         IN  RunColoring(h, ts, [col EXCEPT ![v] = MinAvailableColor(ts, col, v)],
                         U \ {v})

\* schedule(flights, algorithm)
ColoringOf(h, ts) == RunColoring(h, ts, [v \in 1..Len(ts) |-> 0], 1..Len(ts))

\* the highest colour index plus one, as if colours were numbered from 0
num_runways_PlusOne(col) == SetMax({col[v] : v \in DOMAIN col} \cup {0}) + 1

\* ScheduleResult.num_runways
num_runways(col) == Cardinality({col[v] : v \in DOMAIN col} \ {0})

\* ScheduleResult.runway_assignments[r]
runway_assignments(col, r) == {v \in DOMAIN col : col[v] = r}

\* sum(len(f) for f in result.runway_assignments.values())
RECURSIVE AssignedCount(_, _)
AssignedCount(col, r) ==
    IF r = 0 THEN 0
    ELSE Cardinality(runway_assignments(col, r)) + AssignedCount(col, r - 1)

\* ---------------------------------------------------------------- sorting
\* indices of S as a sequence, ascending by key, ties by original position
RECURSIVE SortByKey(_, _)
SortByKey(S, key) ==
    IF S = {} THEN <<>>
    ELSE LET k == SetMin({key[i] : i \in S})
             i == SetMin({j \in S : key[j] = k})
         IN  <<i>> \o SortByKey(S \ {i}, key)

\* ---------------------------------------------------------------- ConstrainedRunwayScheduler
\* the increment taken in whole hours instead of minutes
DELAY_INCREMENT_Hours == 15 \div 60

\* Delay increment: 15 minutes
DELAY_INCREMENT == 15
\* Max delay: 240 minutes (4 hours)
MAX_DELAY == 240

\* ordering policies: higher value scheduled first
\* per-run min-max scaling of one attribute over the batch, in percent.
\* An attribute with the same value on every flight of the batch gives every
\* flight the same term, whatever that term is, so it has no part in the
\* order; the term is taken as 0.
Normalize(x, vals) ==
    IF SetMax(vals) = SetMin(vals) THEN 0
    ELSE ((x - SetMin(vals)) * 100) \div (SetMax(vals) - SetMin(vals))

\* hybrid: 0.40 x priority + 0.35 x passengers + 0.25 x distance, normalized
HybridScore(ts, i) ==
    40 * Normalize(ts[i].prio, {ts[j].prio : j \in 1..Len(ts)})
    + 35 * Normalize(ts[i].pax, {ts[j].pax : j \in 1..Len(ts)})
    + 25 * Normalize(ts[i].dist, {ts[j].dist : j \in 1..Len(ts)})

PolicyKey(policy, ts) ==
    [i \in 1..Len(ts) |->
        CASE policy = "priority_based" -> 0 - ts[i].prio
          [] policy = "passenger_first" -> 0 - ts[i].pax
          [] policy = "hybrid" -> 0 - HybridScore(ts, i)
          [] OTHER -> 0 - ts[i].dist]

PolicyOrder(policy, ts) == SortByKey(1..Len(ts), PolicyKey(policy, ts))

\* a flight at its realized (delayed) time; the end is recomputed from the start
Delayed(f, d) == [f EXCEPT !.start = f.start + d]

\* flights already bound to runway r
OnRunway(rw, r) == {g \in DOMAIN rw : rw[g] = r}

\* flights on runway r that overlap flight f pushed back by d minutes
ConflictsOn(ts, rw, dl, r, f, d) ==
    {g \in OnRunway(rw, r) :
        FLIGHTS_CONFLICT(Delayed(ts[f], d), Delayed(ts[g], dl[g]))}

\* runways with no overlap for flight f at delay d
FreeRunways(ts, rw, dl, n, f, d) ==
    {r \in 1..n : ConflictsOn(ts, rw, dl, r, f, d) = {}}

\* the retry loop stops only once the delay has passed the ceiling
CeilingReached_Strict(d) == d > MAX_DELAY

\* the retry loop stops when the accumulated delay reaches the ceiling
CeilingReached(d) == d >= MAX_DELAY

\* at the ceiling: the runway whose last conflicting flight ends soonest
LastConflictEnd(ts, rw, dl, r, f, d) ==
    SetMax({arrival_end(Delayed(ts[g], dl[g])) :
               g \in ConflictsOn(ts, rw, dl, r, f, d)})

ForcedRunway(ts, rw, dl, n, f, d) ==
    LET e == SetMin({LastConflictEnd(ts, rw, dl, r, f, d) : r \in 1..n})
    IN  SetMin({r \in 1..n : LastConflictEnd(ts, rw, dl, r, f, d) = e})

\* result fields
\* aggregate on-time ratio = count(delay == 0) / total, as a percentage, of
\* a result with at least one flight
on_time_percentage(dl) ==
    (Cardinality({f \in DOMAIN dl : dl[f] = 0}) * 100) \div Cardinality(DOMAIN dl)

total_delay_minutes(dl) ==
    LET RECURSIVE Sum(_)
        Sum(S) == IF S = {} THEN 0
                  ELSE LET x == CHOOSE y \in S : TRUE IN dl[x] + Sum(S \ {x})
    IN  Sum(DOMAIN dl)

\* ---------------------------------------------------------------- Pilot
\* last_flight_end: Optional[datetime] = None
None == -1

\* can_fly with strict comparisons: a flight that exactly fills the day, or
\* starts exactly one rest period after the last end, is refused
can_fly_Strict(hours, last_end, max_daily, min_rest, flight_start, duration) ==
    /\ ~(hours + duration >= max_daily)
    /\ (last_end # None) => ~(flight_start - last_end <= min_rest)

\* can_fly without the rest-period check
can_fly_NoRestCheck(hours, last_end, max_daily, min_rest, flight_start, duration) ==
    ~(hours + duration > max_daily)

\* can_fly without the daily-hours check
can_fly_NoHoursCheck(hours, last_end, max_daily, min_rest, flight_start, duration) ==
    (last_end # None) => ~(flight_start - last_end < min_rest)

\* Pilot.can_fly(flight_start, duration)
can_fly(hours, last_end, max_daily, min_rest, flight_start, duration) ==
    /\ ~(hours + duration > max_daily)
    /\ (last_end # None) => ~(flight_start - last_end < min_rest)

\* Pilot.get_remaining_hours
get_remaining_hours(hours, max_daily) == max_daily - hours

\* the flight's duration is not added to the pilot's hours
HoursAfterAssign_NotAdded(hours, duration) == hours

\* Pilot.assign_flight(flight_id, start, end, duration): hours worked today
HoursAfterAssign(hours, duration) == hours + duration

\* the new flight's start kept as the end of the pilot's last flight
LastEndAfterAssign_Start(flight_start, flight_end) == flight_start

\* Pilot.assign_flight(flight_id, start, end, duration): end of the last flight
LastEndAfterAssign(flight_start, flight_end) == flight_end

\* the rate left as a fraction of 1
compliance_rate_Fraction(assigned, total) == assigned \div total

\* PilotScheduleResult.compliance_rate = assigned / total flights x 100, of a
\* result with at least one flight
compliance_rate(assigned, total) == (assigned * 100) \div total

\* PilotAssignment
PilotAssignment(p, f, flight_start, flight_end) ==
    [pilot_id |-> p, flight_id |-> f,
     flight_start |-> flight_start, flight_end |-> flight_end]

\* ---------------------------------------------------------------- PilotScheduler
\* flights sorted by start time (earliest first)
FlightsByStart(ts, S) == SortByKey(S, [i \in 1..Len(ts) |-> ts[i].start])

\* FOR each pilot: IF pilot.can_fly(flight.start, flight.duration)
available_pilots(n, hours, last_end, max_daily, min_rest, f) ==
    {q \in 1..n : can_fly(hours[q], last_end[q], max_daily, min_rest, f.start, f.dur)}

\* among the least busy pilots the last one is taken
LeastBusy_LastOnTie(avail, hours) ==
    LET h == SetMin({hours[q] : q \in avail})
    IN  SetMax({q \in avail : hours[q] = h})

\* LEAST_BUSY_ASSIGNMENT: min(eligible_pilots, key = current duty hours)
LeastBusy(avail, hours) ==
    LET h == SetMin({hours[q] : q \in avail})
    IN  SetMin({q \in avail : hours[q] = h})

\* MOST_AVAILABLE_ASSIGNMENT: max(eligible_pilots, key = remaining capacity)
MostAvailable(avail, hours, max_daily) ==
    LET c == SetMax({get_remaining_hours(hours[q], max_daily) : q \in avail})
    IN  SetMin({q \in avail : get_remaining_hours(hours[q], max_daily) = c})

\* ROUND_ROBIN_ASSIGNMENT: pilots tried cyclically from the pointer; the
\* pointer advances past every pilot tried.  Steps taken until a hit,
\* applied only when some pilot can fly (avail is not empty), where the
\* search ends with the first such pilot from the pointer on:
RoundRobinSteps(avail, idx, n) ==
    SetMin({k \in 1..n : (((idx + k - 1) % n) + 1) \in avail})

\* the pilot at the pointer is taken without looking at availability
RoundRobin_NoSkip(avail, idx, n) == (idx % n) + 1

RoundRobin(avail, idx, n) == ((idx + RoundRobinSteps(avail, idx, n) - 1) % n) + 1

select_by_strategy(strategy, avail, hours, max_daily, idx, n) ==
    CASE strategy = "least_busy" -> LeastBusy(avail, hours)
      [] strategy = "most_available" -> MostAvailable(avail, hours, max_daily)
      [] OTHER -> RoundRobin(avail, idx, n)

PointerAfter(strategy, avail, idx, n) ==
    IF strategy = "round_robin"
    THEN (idx + RoundRobinSteps(avail, idx, n)) % n
    ELSE idx

\* ---------------------------------------------------------------- MultiDayPilotScheduler
\* flights grouped by day, days in increasing order, each day sorted by start
FlightsOnDay(ts, d) == {i \in 1..Len(ts) : ts[i].day = d}

RECURSIVE MultiDayOrder(_, _)
MultiDayOrder(ts, days) ==
    IF days = {} THEN <<>>
    ELSE LET d == SetMin(days)
         IN  FlightsByStart(ts, FlightsOnDay(ts, d)) \o MultiDayOrder(ts, days \ {d})

\* the hours kept across the day boundary
ResetDailyHours_Keep(hours) == hours

\* daily hour resets for pilots
ResetDailyHours(hours) == [q \in DOMAIN hours |-> 0]

\* the end of the last flight forgotten at the day boundary
CarryLastFlightEnd_Clear(last_end) == [q \in DOMAIN last_end |-> None]

\* the end of each pilot's last flight carries over unmodified
CarryLastFlightEnd(last_end) == last_end

\* ---------------------------------------------------------------- validate_schedule
RECURSIVE SumDurations(_)
SumDurations(as) ==
    IF as = <<>> THEN 0
    ELSE (Head(as).flight_end - Head(as).flight_start) + SumDurations(Tail(as))

\* one pilot's assignments, sorted by start instant
PilotAssignments(as, q) ==
    LET mine == SelectSeq(as, LAMBDA a : a.pilot_id = q)
        ord == SortByKey(1..Len(mine), [i \in 1..Len(mine) |-> mine[i].flight_start])
    IN  [i \in 1..Len(mine) |-> mine[ord[i]]]

\* the daily limit applied to each flight on its own, not to the sum
HoursViolations_PerFlight(as, max_daily) ==
    {[kind |-> "daily_hours", pilot_id |-> q] :
        q \in {r \in {as[i].pilot_id : i \in 1..Len(as)} :
                  \E i \in 1..Len(as) :
                      as[i].pilot_id = r /\ as[i].flight_end - as[i].flight_start > max_daily}}

HoursViolations(as, max_daily) ==
    {[kind |-> "daily_hours", pilot_id |-> q] :
        q \in {r \in {as[i].pilot_id : i \in 1..Len(as)} :
                  SumDurations(PilotAssignments(as, r)) > max_daily}}

RestViolations(as, min_rest) ==
    UNION {
        LET mine == PilotAssignments(as, q)
        IN  {[kind |-> "rest", pilot_id |-> q, flight_id |-> mine[i + 1].flight_id] :
                i \in {j \in 1..(Len(mine) - 1) :
                          mine[j + 1].flight_start - mine[j].flight_end < min_rest}}
        : q \in {as[i].pilot_id : i \in 1..Len(as)}}

validate_schedule(as, max_daily, min_rest) ==
    HoursViolations(as, max_daily) \cup RestViolations(as, min_rest)

\* is_valid, violations = scheduler.validate_schedule(assignments)
is_valid(viol) == viol = {}

\* an entry of all_assignments: the assignment with the day it belongs to
DayAssignment(p, f, flight_start, flight_end, day) ==
    [pilot_id |-> p, flight_id |-> f,
     flight_start |-> flight_start, flight_end |-> flight_end, day |-> day]

AssignmentsOnDay(as, d) == SelectSeq(as, LAMBDA a : a.day = d)

\* the daily limit is checked on the assignments of each day, the rest
\* between time-consecutive assignments of a pilot on the whole list
validate_multi_day(as, max_daily, min_rest) ==
    UNION {HoursViolations(AssignmentsOnDay(as, d), max_daily) :
              d \in {as[i].day : i \in 1..Len(as)}}
        \cup RestViolations(as, min_rest)

\* ---------------------------------------------------------------- inputs
\* <<start, occupancy>> of four flights that overlap in a chain
ChainWindows == {<<0, 2>>, <<1, 3>>, <<3, 3>>, <<5, 2>>}

ChainTaskSet == {[start |-> w[1], dur |-> w[2]] : w \in ChainWindows}

ColorTaskSet ==
    [start : 0..MaxColorStart, dur : 1..MaxColorDur]

Heuristics == {"greedy", "welsh_powell", "dsatur"}

\* (priority, passenger_count, distance)
ConProfiles == {<<1, 200, 1000>>, <<2, 100, 1000>>}

\* (arrival minute, runway occupancy minutes): 15-minute arrivals 10 minutes
\* apart, and one long occupancy that outlasts the maximum delay
ConWindows == {<<0, 15>>, <<10, 15>>, <<20, 15>>, <<0, 270>>}

ConTaskSet ==
    {[start |-> w[1], dur |-> w[2], prio |-> p[1], pax |-> p[2], dist |-> p[3]] :
        w \in ConWindows, p \in ConProfiles}

Policies == {"priority_based", "passenger_first", "distance_first"}

\* <<departure hour, duration in hours>> of the flights of one day
DutyDurs == {1, 2}

DutyWindows == {<<0, 1>>, <<0, 2>>, <<2, 1>>, <<2, 2>>, <<3, 1>>, <<3, 2>>, <<4, 1>>}

DutyTaskSet == {[start |-> w[1], dur |-> w[2], day |-> 0] : w \in DutyWindows}

\* multi-day flights: an early and a late departure on each of two days
MultiDays == {0, 1}

MultiOffsets == {0, 22}

MultiTaskSet ==
    {[start |-> 24 * d + o, dur |-> u, day |-> d] :
        d \in MultiDays, o \in MultiOffsets, u \in DutyDurs}

\* <<start, duration>> of flights in assignment lists built outside the scheduler
ExternalWindows == {<<0, 1>>, <<0, 2>>, <<2, 2>>, <<3, 1>>}

\* assignment lists as a caller may load them: any pilot on any flight
ExternalAssignments(n) ==
    UNION {
        {[i \in 1..k |-> PilotAssignment(pm[i], i, ws[i][1], ws[i][1] + ws[i][2])] :
            pm \in [1..k -> 1..n], ws \in [1..k -> ExternalWindows]}
        : k \in 0..MaxDutyTasks}

\* flights as they arrive in a request, before any Flight object is built:
\* <<start, occupancy>> with zero and negative occupancies among them
RequestWindows == {<<0, 2>>, <<1, 2>>, <<0, 270>>, <<0, 0>>, <<1, -1>>}

\* <<priority, passengers, distance>>: every attribute differs between the two
RequestProfiles == {<<1, 200, 1000>>, <<2, 100, 2000>>}

RequestTaskSet ==
    {[start |-> w[1], dur |-> w[2], prio |-> p[1], pax |-> p[2], dist |-> p[3], day |-> 0] :
        w \in RequestWindows, p \in RequestProfiles}

AllPolicies == Policies \cup {"hybrid"}

DailyLimits == {2, 4}

RestLimits == {1, 2}

Strategies == {"least_busy", "most_available", "round_robin"}

NoDay == -1

\* id standing for no generated flight set
NoFlightSet == 0

\* ---------------------------------------------------------------- Init
\* ------------------------------------------------------------------ App
\* React state holding null is Null, a value v is Some(v)
Null == <<>>

Some(x) == <<x>>

LoadingHandlers ==
    {"findRoute", "runScheduler", "runPilotScheduler", "generateMultiDayFlights",
     "runMultiDayPilotScheduler", "runConstrainedScheduler", "compareAlgorithms",
     "runFullDemo"}

\* handlers that send generatedFlights to the server
FlightHandlers ==
    {"runScheduler", "runMultiDayPilotScheduler", "runConstrainedScheduler",
     "compareAlgorithms"}

Views == {"route", "schedule", "pilots", "constrained"}

\* the request buttons the sidebar renders in each view
ButtonsOf(v) ==
    CASE v = "route" -> {"findRoute", "runFullDemo"}
      [] v = "schedule" -> {"generateMultiDayFlights", "runScheduler"}
      [] v = "pilots" -> {"generateMultiDayFlights", "runMultiDayPilotScheduler"}
      [] v = "constrained" -> {"generateMultiDayFlights", "runConstrainedScheduler",
                               "compareAlgorithms"}
      [] OTHER -> {}

\* the demo button stays enabled while a request is loading
Disabled_DemoIgnoresLoading(h, ld, sd, gf) ==
    CASE h = "findRoute" -> ld
      [] h = "runFullDemo" -> FALSE
      [] h = "generateMultiDayFlights" -> ld \/ sd = ""
      [] OTHER -> ld \/ gf = Null

\* the disabled attribute of the button of handler h
Disabled(h, ld, sd, gf) ==
    CASE h \in {"findRoute", "runFullDemo"} -> ld
      [] h = "generateMultiDayFlights" -> ld \/ sd = ""
      [] OTHER -> ld \/ gf = Null

\* !generatedFlights || generatedFlights.length === 0
NoFlights(gf) == gf = Null \/ gf[1].length = 0

\* the message of the handler's early return, "" when it goes on
EarlyReturn(h, src, dst, gf, sr) ==
    CASE h \in {"findRoute", "runFullDemo"} ->
             IF src = "" \/ dst = "" THEN "Please select source and destination" ELSE ""
      [] h = "runPilotScheduler" ->
             IF sr = Null \/ sr[1].length = 0 THEN "Please run runway scheduler first" ELSE ""
      [] h \in {"runMultiDayPilotScheduler", "runConstrainedScheduler", "compareAlgorithms"} ->
             IF NoFlights(gf) THEN "Please generate flights first" ELSE ""
      [] OTHER -> ""

\* the text each catch block falls back to
Fallback(h) ==
    CASE h = "findRoute" -> "Failed to find route"
      [] h = "runScheduler" -> "Failed to run scheduler"
      [] h = "runPilotScheduler" -> "Failed to run pilot scheduler"
      [] h = "generateMultiDayFlights" -> "Failed to generate multi-day flights"
      [] h = "runMultiDayPilotScheduler" -> "Failed to schedule pilots"
      [] h = "runConstrainedScheduler" -> "Failed to schedule constrained runways"
      [] h = "compareAlgorithms" -> "Failed to compare algorithms"
      [] OTHER -> "Failed to run demo"

\* the methods of the api object in frontend/src/api.js
api ==
    {"healthCheck", "getAirports", "getAirport", "getRoutes", "findRoute",
     "findAllRoutes", "generateFlights", "scheduleFlights", "scheduleDemo",
     "routeWithScheduling"}

\* the api method each handler awaits
ApiMethod(h) ==
    CASE h = "findRoute" -> "findRoute"
      [] h = "runScheduler" -> "scheduleFlights"
      [] h = "runPilotScheduler" -> "schedulePilots"
      [] h = "generateMultiDayFlights" -> "generateMultiDayFlights"
      [] h = "runMultiDayPilotScheduler" -> "schedulePilotsMultiDay"
      [] h = "runConstrainedScheduler" -> "scheduleConstrainedRunways"
      [] h = "compareAlgorithms" -> "compareConstrainedAlgorithms"
      [] OTHER -> "routeWithScheduling"

\* message of the TypeError a call of a missing method throws
NotAFunction(method) ==
    CASE method = "schedulePilots" -> "api.schedulePilots is not a function"
      [] method = "generateMultiDayFlights" -> "api.generateMultiDayFlights is not a function"
      [] method = "schedulePilotsMultiDay" -> "api.schedulePilotsMultiDay is not a function"
      [] method = "scheduleConstrainedRunways" ->
             "api.scheduleConstrainedRunways is not a function"
      [] method = "compareConstrainedAlgorithms" ->
             "api.compareConstrainedAlgorithms is not a function"
      [] OTHER -> "api method is not a function"

\* handlers that only await another handler
Body(h) == IF h = "generateFlightsForRunway" THEN "generateMultiDayFlights" ELSE h

\* the catch block always shows its own text
ErrorText_FallbackOnly(message, fallback) == fallback

\* err.message || fallback
ErrorText(message, fallback) == IF message # "" THEN message ELSE fallback

\* the request a handler sends, with the state its closure captured
Request(h, dst, gf, sr) ==
    [handler |-> h,
     flights |-> IF h \in FlightHandlers THEN gf[1].id
                 ELSE IF h = "runPilotScheduler" THEN sr[1].of
                 ELSE NoFlightSet,
     dest |-> IF h = "runFullDemo" THEN dst ELSE ""]

RemoveAt(q, i) == [j \in 1..(Len(q) - 1) |-> IF j < i THEN q[j] ELSE q[j + 1]]

UserPending == {i \in 1..Len(pending) : pending[i].handler \in LoadingHandlers}

\* responses of the server
AirportIds == {"LHR"}

FlightCounts == {0, 2}

ScheduledCount == SetMax(FlightCounts)

RouteResponses ==
    {[success |-> TRUE, error |-> ""],
     [success |-> FALSE, error |-> "Airport not found"],
     [success |-> FALSE, error |-> ""]}

RejectionMessages == {"Network Error"}

\* useState initial values
AppState ==
    /\ view = "route"
    /\ airports = {}
    /\ loading = FALSE
    /\ error = Null
    /\ source = "JFK"
    /\ destination = "LHR"
    /\ scheduleDest = "LHR"
    /\ routeResult = Null
    /\ generatedFlights = Null
    /\ scheduleResult = Null
    /\ pilotScheduleResult = Null
    /\ multiDayPilotResult = Null
    /\ constrainedResult = Null
    /\ algorithmComparison = Null
    /\ settled = Null
    /\ generated = 0
    /\ calls = 0
    /\ uncaught = {}

AppIdle == AppState /\ pending = <<>>

ColorIdle == colors = <<>> /\ uncolored_vertices = {}

ConIdle ==
    /\ max_runways = 0
    /\ cur_delay = 0
    /\ runway_id = <<>>
    /\ delayed_by = <<>>
    /\ at_ceiling = {}

PilotIdle ==
    /\ num_pilots = 0
    /\ max_daily_hours = 0
    /\ min_rest_hours = 0
    /\ total_hours_today = <<>>
    /\ last_flight_end = <<>>
    /\ assignments = <<>>
    /\ unassigned_flights = <<>>
    /\ current_pilot_index = 0
    /\ pilots_tried = 0
    /\ cur_day = NoDay
    /\ day_pos = 0
    /\ hours_before_reset = <<>>
    /\ first_result = <<>>
    /\ validated = FALSE
    /\ violations = {}

\* PilotScheduler(min_rest_hours, max_daily_hours); create_pilots(count)
CreatePilots ==
    /\ num_pilots \in 1..MaxPilots
    /\ max_daily_hours \in DailyLimits
    /\ min_rest_hours \in RestLimits
    /\ total_hours_today = [q \in 1..num_pilots |-> 0]
    /\ last_flight_end = [q \in 1..num_pilots |-> None]
    /\ assignments = <<>>
    /\ unassigned_flights = <<>>
    /\ current_pilot_index = 0
    /\ pilots_tried = 0
    /\ cur_day = NoDay
    /\ day_pos = 0
    /\ hours_before_reset = [q \in 1..num_pilots |-> 0]
    /\ first_result = <<>>
    /\ validated = FALSE
    /\ violations = {}

InitColor ==
    /\ mode = "color"
    /\ AppIdle
    /\ alg \in Heuristics
    /\ tasks \in SeqsUpTo(ColorTaskSet, MaxColorTasks)
                 \cup SeqsUpTo(ChainTaskSet, MaxChainTasks)
    /\ colors = [v \in 1..Len(tasks) |-> 0]
    /\ uncolored_vertices = 1..Len(tasks)
    /\ order = <<>>
    /\ pos = 1
    /\ ConIdle
    /\ PilotIdle

InitConstrained ==
    /\ mode = "constrained"
    /\ AppIdle
    /\ alg \in Policies
    /\ tasks \in SeqsUpTo(ConTaskSet, MaxConTasks)
    /\ max_runways \in 1..MaxRunways
    /\ order = PolicyOrder(alg, tasks)
    /\ pos = 1
    /\ cur_delay = 0
    /\ runway_id = [f \in 1..Len(tasks) |-> 0]
    /\ delayed_by = [f \in 1..Len(tasks) |-> 0]
    /\ at_ceiling = {}
    /\ ColorIdle
    /\ PilotIdle

\* PilotScheduler.schedule(flights, strategy): flights sorted by start time
InitDuty ==
    /\ mode = "duty"
    /\ AppIdle
    /\ alg \in Strategies
    /\ tasks \in SeqsUpTo(DutyTaskSet, MaxDutyTasks)
    /\ order = FlightsByStart(tasks, 1..Len(tasks))
    /\ pos = 1
    /\ CreatePilots
    /\ ColorIdle
    /\ ConIdle

\* ROUND_ROBIN_ASSIGNMENT(flights, pilots): current_pilot_index = 0; the
\* pool may be empty
InitRoundRobin ==
    /\ mode = "round_robin"
    /\ AppIdle
    /\ alg = "round_robin"
    /\ tasks \in SeqsUpTo(DutyTaskSet, MaxDutyTasks)
    /\ order = FlightsByStart(tasks, 1..Len(tasks))
    /\ pos = 1
    /\ num_pilots \in 0..MaxPilots
    /\ max_daily_hours \in DailyLimits
    /\ min_rest_hours \in RestLimits
    /\ total_hours_today = [q \in 1..num_pilots |-> 0]
    /\ last_flight_end = [q \in 1..num_pilots |-> None]
    /\ assignments = <<>>
    /\ unassigned_flights = <<>>
    /\ current_pilot_index = 0
    /\ pilots_tried = 0
    /\ cur_day = NoDay
    /\ day_pos = 0
    /\ hours_before_reset = [q \in 1..num_pilots |-> 0]
    /\ first_result = <<>>
    /\ validated = FALSE
    /\ violations = {}
    /\ ColorIdle
    /\ ConIdle

\* MultiDayPilotScheduler.schedule(flights, pilots, limits, strategy)
InitMulti ==
    /\ mode = "multi"
    /\ AppIdle
    /\ alg \in Strategies
    /\ tasks \in SeqsUpTo(MultiTaskSet, MaxDutyTasks)
    /\ order = MultiDayOrder(tasks, {tasks[i].day : i \in 1..Len(tasks)})
    /\ pos = 1
    /\ CreatePilots
    /\ ColorIdle
    /\ ConIdle

\* validate_schedule called on an assignment list loaded from elsewhere
InitValidate ==
    /\ mode = "validate"
    /\ AppIdle
    /\ alg = "none"
    /\ tasks = <<>>
    /\ order = <<>>
    /\ pos = 1
    /\ num_pilots \in 1..MaxPilots
    /\ max_daily_hours \in DailyLimits
    /\ min_rest_hours \in RestLimits
    /\ total_hours_today = [q \in 1..num_pilots |-> 0]
    /\ last_flight_end = [q \in 1..num_pilots |-> None]
    /\ assignments \in ExternalAssignments(num_pilots)
    /\ unassigned_flights = <<>>
    /\ current_pilot_index = 0
    /\ pilots_tried = 0
    /\ cur_day = NoDay
    /\ day_pos = 0
    /\ hours_before_reset = [q \in 1..num_pilots |-> 0]
    /\ first_result = <<>>
    /\ validated = FALSE
    /\ violations = {}
    /\ ColorIdle
    /\ ConIdle

\* a scheduling request as received: raw flights and the pool parameters of
\* the scheduler named by alg; nothing is scheduled yet
InitRequest ==
    /\ mode = "request"
    /\ AppIdle
    /\ alg \in Heuristics \cup AllPolicies \cup Strategies
    /\ tasks \in SeqsUpTo(RequestTaskSet, MaxRequestTasks)
    /\ order = <<>>
    /\ pos = 1
    /\ ColorIdle
    /\ IF alg \in AllPolicies
       THEN /\ max_runways \in 1..MaxRunways
            /\ cur_delay = 0
            /\ runway_id = <<>>
            /\ delayed_by = <<>>
            /\ at_ceiling = {}
       ELSE ConIdle
    /\ IF alg \in Strategies
       THEN /\ num_pilots \in 0..MaxPilots
            /\ max_daily_hours \in DailyLimits
            /\ min_rest_hours \in RestLimits
            /\ total_hours_today = <<>>
            /\ last_flight_end = <<>>
            /\ assignments = <<>>
            /\ unassigned_flights = <<>>
            /\ current_pilot_index = 0
            /\ pilots_tried = 0
            /\ cur_day = NoDay
            /\ day_pos = 0
            /\ hours_before_reset = <<>>
            /\ first_result = <<>>
            /\ validated = FALSE
            /\ violations = {}
       ELSE PilotIdle

\* App after mount: the effect has called loadAirports
InitApp ==
    /\ mode = "app"
    /\ alg = "none"
    /\ tasks = <<>>
    /\ order = <<>>
    /\ pos = 1
    /\ ColorIdle
    /\ ConIdle
    /\ PilotIdle
    /\ AppState
    /\ pending = <<[handler |-> "loadAirports", flights |-> NoFlightSet, dest |-> ""]>>

Init ==
    \/ InitRequest \/ InitColor \/ InitConstrained \/ InitDuty \/ InitMulti
    \/ InitValidate \/ InitApp \/ InitRoundRobin

\* ---------------------------------------------------------------- actions
\* the request is input-invalid: building the Flight objects raises
\* ValueError, or the pilot pool is empty where flights are to be assigned.
\* The request fails as a whole, no scheduler runs.
RejectRequest ==
    /\ mode = "request"
    /\ ~CreateFlights(tasks) \/ ~PoolSuffices(alg, num_pilots, tasks)
    /\ mode' = "rejected"
    /\ UNCHANGED <<appVars, alg, tasks, order, pos, colorVars, conVars, pilotVars>>

\* every Flight is built and the pool is not empty; the scheduler named by
\* alg starts on the list
AcceptRequest ==
    /\ mode = "request"
    /\ CreateFlights(tasks)
    /\ PoolSuffices(alg, num_pilots, tasks)
    /\ pos' = 1
    /\ UNCHANGED <<appVars, alg, tasks, max_runways, cur_delay, at_ceiling, num_pilots, pilots_tried,
                   max_daily_hours, min_rest_hours, assignments,
                   unassigned_flights, current_pilot_index, cur_day, day_pos,
                   first_result, validated, violations>>
    /\ IF alg \in Heuristics
       THEN /\ mode' = "color"
            /\ colors' = [v \in 1..Len(tasks) |-> 0]
            /\ uncolored_vertices' = 1..Len(tasks)
            /\ order' = <<>>
       ELSE UNCHANGED colorVars
    /\ IF alg \in AllPolicies
       THEN /\ mode' = "constrained"
            /\ order' = PolicyOrder(alg, tasks)
            /\ runway_id' = [f \in 1..Len(tasks) |-> 0]
            /\ delayed_by' = [f \in 1..Len(tasks) |-> 0]
       ELSE UNCHANGED <<runway_id, delayed_by>>
    /\ IF alg \in Strategies
       THEN /\ mode' = "duty"
            /\ order' = FlightsByStart(tasks, 1..Len(tasks))
            /\ total_hours_today' = [q \in 1..num_pilots |-> 0]
            /\ last_flight_end' = [q \in 1..num_pilots |-> None]
            /\ hours_before_reset' = [q \in 1..num_pilots |-> 0]
       ELSE UNCHANGED <<total_hours_today, last_flight_end, hours_before_reset>>

ColorStep ==
    /\ mode = "color"
    /\ uncolored_vertices # {}
    /\ LET v == NextVertex(alg, tasks, colors, uncolored_vertices)
       IN  /\ colors' = [colors EXCEPT ![v] = MinAvailableColor(tasks, colors, v)]
           /\ uncolored_vertices' = uncolored_vertices \ {v}
    /\ UNCHANGED <<appVars, mode, alg, tasks, order, pos, conVars, pilotVars>>

ColorDone == mode = "color" /\ uncolored_vertices = {}

\* ConstrainedRunwayScheduler.schedule: the slot search for the flight
\* order[pos] at its current delay.  A runway is free: bind immediately.
BindFlight ==
    /\ mode = "constrained"
    /\ pos <= Len(order)
    /\ LET f == order[pos]
           free == FreeRunways(tasks, runway_id, delayed_by, max_runways, f, cur_delay)
       IN  /\ free # {}
           /\ runway_id' = [runway_id EXCEPT ![f] = SetMin(free)]
           /\ delayed_by' = [delayed_by EXCEPT ![f] = cur_delay]
    /\ pos' = pos + 1
    /\ cur_delay' = 0
    /\ UNCHANGED <<appVars, mode, alg, tasks, order, max_runways, at_ceiling, colorVars, pilotVars>>

\* No runway is free and the ceiling is not reached: push the start forward
\* by the delay increment and retry.
DelayFlight ==
    /\ mode = "constrained"
    /\ pos <= Len(order)
    /\ FreeRunways(tasks, runway_id, delayed_by, max_runways, order[pos], cur_delay) = {}
    /\ ~CeilingReached(cur_delay)
    /\ cur_delay' = cur_delay + DELAY_INCREMENT
    /\ UNCHANGED <<appVars, mode, alg, tasks, order, pos, max_runways, runway_id,
                   delayed_by, at_ceiling, colorVars, pilotVars>>

\* No runway is free and the accumulated delay reached the ceiling: the
\* flight is recorded as delayed to the ceiling and still assigned.
ForceAssign ==
    /\ mode = "constrained"
    /\ pos <= Len(order)
    /\ FreeRunways(tasks, runway_id, delayed_by, max_runways, order[pos], cur_delay) = {}
    /\ CeilingReached(cur_delay)
    /\ LET f == order[pos]
       IN  /\ runway_id' = [runway_id EXCEPT ![f] =
                   ForcedRunway(tasks, runway_id, delayed_by, max_runways, f, cur_delay)]
           /\ delayed_by' = [delayed_by EXCEPT ![f] = cur_delay]
           /\ at_ceiling' = at_ceiling \cup {f}
    /\ pos' = pos + 1
    /\ cur_delay' = 0
    /\ UNCHANGED <<appVars, mode, alg, tasks, order, max_runways, colorVars, pilotVars>>

ConDone == mode = "constrained" /\ pos > Len(order)

\* the flight being processed may be scheduled: single-day runs always,
\* multi-day runs once its day has been started
InDay ==
    /\ mode \in {"duty", "multi"}
    /\ pos <= Len(order)
    /\ mode = "multi" => tasks[order[pos]].day = cur_day

AvailableNow ==
    available_pilots(num_pilots, total_hours_today, last_flight_end,
                     max_daily_hours, min_rest_hours, tasks[order[pos]])

\* multi-day: a new day begins; daily hours reset, last flight end carried
StartDay ==
    /\ mode = "multi"
    /\ pos <= Len(order)
    /\ tasks[order[pos]].day # cur_day
    /\ cur_day' = tasks[order[pos]].day
    /\ day_pos' = 0
    /\ hours_before_reset' = total_hours_today
    /\ total_hours_today' = ResetDailyHours(total_hours_today)
    /\ last_flight_end' = CarryLastFlightEnd(last_flight_end)
    /\ current_pilot_index' = 0
    /\ UNCHANGED <<appVars, mode, alg, tasks, order, pos, num_pilots, pilots_tried, max_daily_hours,
                   min_rest_hours, assignments, unassigned_flights, first_result,
                   validated, violations, colorVars, conVars>>

\* assign_pilots_to_flights: some pilot can fly; select by strategy, assign
AssignPilot ==
    /\ InDay
    /\ AvailableNow # {}
    /\ LET f == order[pos]
           q == select_by_strategy(alg, AvailableNow, total_hours_today,
                                   max_daily_hours, current_pilot_index, num_pilots)
       IN  /\ total_hours_today' = [total_hours_today EXCEPT
                   ![q] = HoursAfterAssign(@, tasks[f].dur)]
           /\ last_flight_end' = [last_flight_end EXCEPT
                   ![q] = LastEndAfterAssign(tasks[f].start, arrival_end(tasks[f]))]
           /\ assignments' = Append(assignments,
                   IF mode = "multi"
                   THEN DayAssignment(q, f, tasks[f].start, arrival_end(tasks[f]),
                                      tasks[f].day)
                   ELSE PilotAssignment(q, f, tasks[f].start, arrival_end(tasks[f])))
    /\ current_pilot_index' =
           PointerAfter(alg, AvailableNow, current_pilot_index, num_pilots)
    /\ pos' = pos + 1
    /\ day_pos' = day_pos + 1
    /\ UNCHANGED <<appVars, mode, alg, tasks, order, num_pilots, pilots_tried, max_daily_hours,
                   min_rest_hours, unassigned_flights, cur_day,
                   hours_before_reset, first_result, validated, violations,
                   colorVars, conVars>>

\* assign_pilots_to_flights: available_pilots is empty; ADD flight to unassigned
MarkUnassigned ==
    /\ InDay
    /\ AvailableNow = {}
    /\ unassigned_flights' = Append(unassigned_flights, order[pos])
    /\ pos' = pos + 1
    /\ day_pos' = day_pos + 1
    /\ UNCHANGED <<appVars, mode, alg, tasks, order, num_pilots, pilots_tried, max_daily_hours,
                   min_rest_hours, total_hours_today, last_flight_end,
                   assignments, current_pilot_index, cur_day,
                   hours_before_reset, first_result, validated, violations,
                   colorVars, conVars>>

DutyDone == mode \in {"duty", "multi"} /\ pos > Len(order)

\* scheduler.validate_schedule(result.assignments); the multi-day scheduler
\* validates per day
ValidateSchedule ==
    /\ DutyDone \/ mode = "validate"
    /\ ~validated
    /\ validated' = TRUE
    /\ violations' =
           IF mode = "multi"
           THEN validate_multi_day(assignments, max_daily_hours, min_rest_hours)
           ELSE validate_schedule(assignments, max_daily_hours, min_rest_hours)
    /\ UNCHANGED <<appVars, mode, alg, tasks, order, pos, num_pilots, pilots_tried, max_daily_hours,
                   min_rest_hours, total_hours_today, last_flight_end,
                   assignments, unassigned_flights, current_pilot_index, cur_day,
                   day_pos, hours_before_reset, first_result, colorVars, conVars>>

\* ROUND_ROBIN_ASSIGNMENT, one iteration of its loops at a time.
\* While current_pilot_index < len(pilots)
RoundRobinLoopCondition == current_pilot_index < num_pilots

\* pilot = pilots[current_pilot_index]
RoundRobinPilot == current_pilot_index + 1

RoundRobinCanFly ==
    can_fly(total_hours_today[RoundRobinPilot], last_flight_end[RoundRobinPilot],
            max_daily_hours, min_rest_hours,
            tasks[order[pos]].start, tasks[order[pos]].dur)

\* the pilot at the pointer can fly: the pointer moves on, the flight is
\* assigned and Break leaves the loop for the next flight
RoundRobinAssign ==
    /\ mode = "round_robin"
    /\ pos <= Len(order)
    /\ RoundRobinLoopCondition
    /\ RoundRobinCanFly
    /\ current_pilot_index' = (current_pilot_index + 1) % num_pilots
    /\ LET f == order[pos]
           q == RoundRobinPilot
       IN  /\ total_hours_today' = [total_hours_today EXCEPT
                   ![q] = HoursAfterAssign(@, tasks[f].dur)]
           /\ last_flight_end' = [last_flight_end EXCEPT
                   ![q] = LastEndAfterAssign(tasks[f].start, arrival_end(tasks[f]))]
           /\ assignments' = Append(assignments,
                   PilotAssignment(q, f, tasks[f].start, arrival_end(tasks[f])))
    /\ pilots_tried' = 0
    /\ pos' = pos + 1
    /\ UNCHANGED <<appVars, mode, alg, tasks, order, num_pilots, max_daily_hours,
                   min_rest_hours, unassigned_flights, cur_day, day_pos,
                   hours_before_reset, first_result, validated, violations,
                   colorVars, conVars>>

\* the pilot at the pointer cannot fly: the pointer moves on and the loop
\* goes round again.  pilots_tried counts these iterations for the flight
\* and stops counting once some pilot has been passed twice.
RoundRobinSkip ==
    /\ mode = "round_robin"
    /\ pos <= Len(order)
    /\ RoundRobinLoopCondition
    /\ ~RoundRobinCanFly
    /\ current_pilot_index' = (current_pilot_index + 1) % num_pilots
    /\ pilots_tried' = IF pilots_tried <= num_pilots THEN pilots_tried + 1
                       ELSE pilots_tried
    /\ UNCHANGED <<appVars, mode, alg, tasks, order, pos, num_pilots, max_daily_hours,
                   min_rest_hours, total_hours_today, last_flight_end,
                   assignments, unassigned_flights, cur_day, day_pos,
                   hours_before_reset, first_result, validated, violations,
                   colorVars, conVars>>

\* the loop condition is false: If no pilot available, mark the flight
\* as unassignable
RoundRobinUnassignable ==
    /\ mode = "round_robin"
    /\ pos <= Len(order)
    /\ ~RoundRobinLoopCondition
    /\ unassigned_flights' = Append(unassigned_flights, order[pos])
    /\ pilots_tried' = 0
    /\ pos' = pos + 1
    /\ UNCHANGED <<appVars, mode, alg, tasks, order, num_pilots, max_daily_hours,
                   min_rest_hours, total_hours_today, last_flight_end,
                   assignments, current_pilot_index, cur_day, day_pos,
                   hours_before_reset, first_result, validated, violations,
                   colorVars, conVars>>

RoundRobinDone == mode = "round_robin" /\ pos > Len(order)

\* scheduler.schedule(flights, strategy) is called once more on the same
\* scheduler: the first result is kept for comparison; the pilots are the
\* objects create_pilots made, with the hours and the last flight end the
\* first run left on them
ScheduleAgain ==
    /\ mode = "duty"
    /\ DutyDone
    /\ first_result = <<>>
    /\ first_result' = <<[assignments |-> assignments,
                          unassigned_flights |-> unassigned_flights]>>
    /\ assignments' = <<>>
    /\ unassigned_flights' = <<>>
    /\ current_pilot_index' = 0
    /\ pos' = 1
    /\ day_pos' = 0
    /\ UNCHANGED <<appVars, mode, alg, tasks, order, num_pilots, pilots_tried, max_daily_hours,
                   min_rest_hours, total_hours_today, last_flight_end, cur_day,
                   hours_before_reset, validated, violations, colorVars, conVars>>

\* ---------------------------------------------------------- App handlers
\* the handler h up to its first await
CallHandler(h) ==
    /\ mode = "app"
    /\ calls < MaxCalls
    /\ calls' = calls + 1
    /\ settled' = Null
    /\ IF h = "runScheduler" /\ NoFlights(generatedFlights)
       THEN \* await generateFlights(): no such function
            /\ uncaught' = uncaught \cup {"generateFlights is not defined"}
            /\ UNCHANGED <<loading, error, pending>>
       ELSE IF EarlyReturn(h, source, destination, generatedFlights, scheduleResult) # ""
       THEN /\ error' = Some(EarlyReturn(h, source, destination, generatedFlights,
                                         scheduleResult))
            /\ UNCHANGED <<loading, pending, uncaught>>
       ELSE IF ApiMethod(h) \notin api
       THEN \* setLoading(true), setError(null), the call throws TypeError in the
            \* try block, catch stores its message, finally setLoading(false)
            /\ loading' = FALSE
            /\ error' = Some(ErrorText(NotAFunction(ApiMethod(h)), Fallback(h)))
            /\ UNCHANGED <<pending, uncaught>>
       ELSE /\ loading' = TRUE
            /\ error' = Null
            /\ pending' = Append(pending, Request(h, destination, generatedFlights,
                                                  scheduleResult))
            /\ UNCHANGED uncaught
    /\ UNCHANGED <<view, airports, source, destination, scheduleDest, routeResult,
                   generatedFlights, scheduleResult, pilotScheduleResult,
                   multiDayPilotResult, constrainedResult, algorithmComparison,
                   generated,
                   coreVars>>

\* a click on a button that is rendered and not disabled
ClickButton ==
    \E h \in ButtonsOf(view) :
        /\ ~Disabled(h, loading, scheduleDest, generatedFlights)
        /\ CallHandler(h)

\* a handler called directly
InvokeHandler ==
    \E h \in LoadingHandlers \cup {"generateFlightsForRunway"} :
        /\ mode = "app"
        /\ CallHandler(Body(h))

SetView ==
    /\ mode = "app"
    /\ \E v \in Views : v # view /\ view' = v
    /\ settled' = Null
    /\ UNCHANGED <<airports, loading, error, source, destination, scheduleDest,
                   routeResult, generatedFlights, scheduleResult, pilotScheduleResult,
                   multiDayPilotResult, constrainedResult, algorithmComparison,
                   pending, generated, calls, uncaught,
                   coreVars>>

SetSource ==
    /\ mode = "app"
    /\ view = "route"
    /\ \E a \in {""} \cup airports : a # source /\ source' = a
    /\ settled' = Null
    /\ UNCHANGED <<view, airports, loading, error, destination, scheduleDest,
                   routeResult, generatedFlights, scheduleResult, pilotScheduleResult,
                   multiDayPilotResult, constrainedResult, algorithmComparison,
                   pending, generated, calls, uncaught,
                   coreVars>>

SetDestination ==
    /\ mode = "app"
    /\ view = "route"
    /\ \E d \in {""} \cup airports : d # destination /\ destination' = d
    /\ settled' = Null
    /\ UNCHANGED <<view, airports, loading, error, source, scheduleDest,
                   routeResult, generatedFlights, scheduleResult, pilotScheduleResult,
                   multiDayPilotResult, constrainedResult, algorithmComparison,
                   pending, generated, calls, uncaught,
                   coreVars>>

SetScheduleDest ==
    /\ mode = "app"
    /\ view # "route"
    /\ \E d \in {""} \cup airports : d # scheduleDest /\ scheduleDest' = d
    /\ settled' = Null
    /\ UNCHANGED <<view, airports, loading, error, source, destination,
                   routeResult, generatedFlights, scheduleResult, pilotScheduleResult,
                   multiDayPilotResult, constrainedResult, algorithmComparison,
                   pending, generated, calls, uncaught,
                   coreVars>>

\* the request at position i of pending settles
Settles(i, h, rejected, message) ==
    /\ mode = "app"
    /\ i \in 1..Len(pending)
    /\ pending[i].handler = h
    /\ pending' = RemoveAt(pending, i)
    /\ settled' = Some([handler |-> h, rejected |-> rejected, message |-> message])
    /\ UNCHANGED calls

LoadAirportsResolved ==
    /\ \E i \in 1..Len(pending) : Settles(i, "loadAirports", FALSE, "")
    /\ airports' = AirportIds
    /\ UNCHANGED <<view, loading, error, source, destination, scheduleDest,
                   routeResult, generatedFlights, scheduleResult, pilotScheduleResult,
                   multiDayPilotResult, constrainedResult, algorithmComparison,
                   generated, uncaught,
                   coreVars>>

LoadAirportsRejected ==
    /\ \E i \in 1..Len(pending), m \in RejectionMessages :
           Settles(i, "loadAirports", TRUE, m)
    /\ error' = Some("Failed to load airports")
    /\ UNCHANGED <<view, airports, loading, source, destination, scheduleDest,
                   routeResult, generatedFlights, scheduleResult, pilotScheduleResult,
                   multiDayPilotResult, constrainedResult, algorithmComparison,
                   generated, uncaught,
                   coreVars>>

FindRouteResolved ==
    /\ \E i \in 1..Len(pending) : Settles(i, "findRoute", FALSE, "")
    /\ \E result \in RouteResponses :
           IF result.success
           THEN routeResult' = Some("route") /\ UNCHANGED error
           ELSE /\ error' = Some(IF result.error # "" THEN result.error
                                 ELSE "No route found")
                /\ UNCHANGED routeResult
    /\ loading' = FALSE
    /\ UNCHANGED <<view, airports, source, destination, scheduleDest,
                   generatedFlights, scheduleResult, pilotScheduleResult,
                   multiDayPilotResult, constrainedResult, algorithmComparison,
                   generated, uncaught,
                   coreVars>>

\* The continuations of runScheduler, runPilotScheduler, generateMultiDayFlights,
\* runMultiDayPilotScheduler, runConstrainedScheduler and compareAlgorithms
\* after their await. No behaviour reaches them: the api object has no
\* generateMultiDayFlights, schedulePilots, schedulePilotsMultiDay,
\* scheduleConstrainedRunways or compareConstrainedAlgorithms method, so these
\* handlers throw before a request is sent, and runScheduler, which awaits
\* api.scheduleFlights, needs generatedFlights, which only a successful
\* generateMultiDayFlights sets. They are kept as the record of what the
\* handlers would store and are in no next-state relation.
RunSchedulerResolved ==
    /\ \E i \in 1..Len(pending) :
           /\ Settles(i, "runScheduler", FALSE, "")
           /\ scheduleResult' = Some([of |-> pending[i].flights,
                                      length |-> ScheduledCount])
    /\ loading' = FALSE
    /\ UNCHANGED <<view, airports, error, source, destination, scheduleDest,
                   routeResult, generatedFlights, pilotScheduleResult,
                   multiDayPilotResult, constrainedResult, algorithmComparison,
                   generated, uncaught,
                   coreVars>>

RunPilotSchedulerResolved ==
    /\ \E i \in 1..Len(pending) :
           /\ Settles(i, "runPilotScheduler", FALSE, "")
           /\ pilotScheduleResult' = Some(pending[i].flights)
    /\ loading' = FALSE
    /\ UNCHANGED <<view, airports, error, source, destination, scheduleDest,
                   routeResult, generatedFlights, scheduleResult,
                   multiDayPilotResult, constrainedResult, algorithmComparison,
                   generated, uncaught,
                   coreVars>>

GenerateMultiDayFlightsResolved ==
    /\ \E i \in 1..Len(pending) : Settles(i, "generateMultiDayFlights", FALSE, "")
    /\ generated' = generated + 1
    /\ \E n \in FlightCounts :
           generatedFlights' = Some([id |-> generated + 1, length |-> n])
    /\ scheduleResult' = Null
    /\ pilotScheduleResult' = Null
    /\ multiDayPilotResult' = Null
    /\ constrainedResult' = Null
    /\ loading' = FALSE
    /\ UNCHANGED <<view, airports, error, source, destination, scheduleDest,
                   routeResult, algorithmComparison, uncaught,
                   coreVars>>

RunMultiDayPilotSchedulerResolved ==
    /\ \E i \in 1..Len(pending) :
           /\ Settles(i, "runMultiDayPilotScheduler", FALSE, "")
           /\ multiDayPilotResult' = Some(pending[i].flights)
    /\ loading' = FALSE
    /\ UNCHANGED <<view, airports, error, source, destination, scheduleDest,
                   routeResult, generatedFlights, scheduleResult, pilotScheduleResult,
                   constrainedResult, algorithmComparison, generated, uncaught,
                   coreVars>>

RunConstrainedSchedulerResolved ==
    /\ \E i \in 1..Len(pending) :
           /\ Settles(i, "runConstrainedScheduler", FALSE, "")
           /\ constrainedResult' = Some(pending[i].flights)
    /\ loading' = FALSE
    /\ UNCHANGED <<view, airports, error, source, destination, scheduleDest,
                   routeResult, generatedFlights, scheduleResult, pilotScheduleResult,
                   multiDayPilotResult, algorithmComparison, generated, uncaught,
                   coreVars>>

CompareAlgorithmsResolved ==
    /\ \E i \in 1..Len(pending) :
           /\ Settles(i, "compareAlgorithms", FALSE, "")
           /\ algorithmComparison' = Some(pending[i].flights)
    /\ loading' = FALSE
    /\ UNCHANGED <<view, airports, error, source, destination, scheduleDest,
                   routeResult, generatedFlights, scheduleResult, pilotScheduleResult,
                   multiDayPilotResult, constrainedResult, generated, uncaught,
                   coreVars>>

RunFullDemoResolved ==
    /\ \E i \in 1..Len(pending) :
           /\ Settles(i, "runFullDemo", FALSE, "")
           /\ scheduleResult' = Some([of |-> NoFlightSet, length |-> ScheduledCount])
           /\ scheduleDest' = pending[i].dest
    /\ routeResult' = Some("route")
    /\ view' = "schedule"
    /\ loading' = FALSE
    /\ UNCHANGED <<airports, error, source, destination, generatedFlights,
                   pilotScheduleResult, multiDayPilotResult, constrainedResult,
                   algorithmComparison, generated, uncaught,
                   coreVars>>

\* the awaited call of a handler rejects: catch, then finally
RequestRejected ==
    /\ \E i \in 1..Len(pending), m \in RejectionMessages :
           /\ pending[i].handler \in LoadingHandlers
           /\ Settles(i, pending[i].handler, TRUE, m)
           /\ error' = Some(ErrorText(m, Fallback(pending[i].handler)))
    /\ loading' = FALSE
    /\ UNCHANGED <<view, airports, source, destination, scheduleDest, routeResult,
                   generatedFlights, scheduleResult, pilotScheduleResult,
                   multiDayPilotResult, constrainedResult, algorithmComparison,
                   generated, uncaught,
                   coreVars>>

NextColor == ColorStep

NextConstrained == BindFlight \/ DelayFlight \/ ForceAssign

NextDuty == AssignPilot \/ MarkUnassigned \/ ValidateSchedule

\* schedule() called twice on one scheduler
NextRerun == AssignPilot \/ MarkUnassigned \/ ScheduleAgain

\* ROUND_ROBIN_ASSIGNMENT
NextRoundRobin == RoundRobinAssign \/ RoundRobinSkip \/ RoundRobinUnassignable

NextValidate == ValidateSchedule

NextRequest ==
    \/ RejectRequest
    \/ AcceptRequest
    \/ ColorStep
    \/ BindFlight
    \/ DelayFlight
    \/ ForceAssign
    \/ AssignPilot
    \/ MarkUnassigned

NextMulti == StartDay \/ AssignPilot \/ MarkUnassigned \/ ValidateSchedule

\* the App driven through its buttons
NextApp ==
    \/ ClickButton
    \/ SetView
    \/ SetSource
    \/ SetDestination
    \/ SetScheduleDest
    \/ LoadAirportsResolved
    \/ LoadAirportsRejected
    \/ FindRouteResolved
    \/ RunFullDemoResolved
    \/ RequestRejected

\* the handlers called directly, in any state and in any interleaving
NextHandlers ==
    \/ InvokeHandler
    \/ LoadAirportsResolved
    \/ LoadAirportsRejected
    \/ FindRouteResolved
    \/ RunFullDemoResolved
    \/ RequestRejected

Next ==
    \/ NextHandlers
    \/ ClickButton
    \/ SetView
    \/ SetSource
    \/ SetDestination
    \/ SetScheduleDest
    \/ RejectRequest
    \/ AcceptRequest
    \/ ColorStep
    \/ BindFlight
    \/ DelayFlight
    \/ ForceAssign
    \/ StartDay
    \/ AssignPilot
    \/ MarkUnassigned
    \/ ValidateSchedule
    \/ ScheduleAgain
    \/ RoundRobinAssign
    \/ RoundRobinSkip
    \/ RoundRobinUnassignable

Spec == Init /\ [][Next]_vars

SpecColor == InitColor /\ [][NextColor]_vars

SpecConstrained == InitConstrained /\ [][NextConstrained]_vars

SpecDuty == InitDuty /\ [][NextDuty]_vars

SpecRerun == InitDuty /\ [][NextRerun]_vars

\* one run of ROUND_ROBIN_ASSIGNMENT; it is a sequential loop and keeps
\* taking steps while it can
FairSpecRoundRobin ==
    InitRoundRobin /\ [][NextRoundRobin]_vars /\ WF_vars(NextRoundRobin)

SpecMulti == InitMulti /\ [][NextMulti]_vars

SpecValidate == InitValidate /\ [][NextValidate]_vars

SpecRequest == InitRequest /\ [][NextRequest]_vars

SpecApp == InitApp /\ [][NextApp]_vars

SpecHandlers == InitApp /\ [][NextHandlers]_vars

\* the scheduler is a sequential loop: a step that can be taken is taken
FairSpecConstrained == SpecConstrained /\ WF_vars(NextConstrained)

\* ================================================================ claims

\* the two half-open intervals [start, end) have an instant in common
IntervalsOverlap(s1, e1, s2, e2) ==
    \E t \in s1..(e1 - 1) : t \in s2..(e2 - 1)

TasksOverlap(a, b) ==
    IntervalsOverlap(a.start, a.start + a.dur, b.start, b.start + b.dur)

\* C1: under every heuristic, no two flights whose half-open intervals
\* overlap are ever given the same runway index by the colouring.
C1_NoSharedRunwayOverlap ==
    mode = "color" =>
        \A u, v \in 1..Len(tasks) :
            (u # v /\ colors[u] # 0 /\ colors[u] = colors[v])
                => ~TasksOverlap(tasks[u], tasks[v])

C1_Witness ==
    /\ ColorDone
    /\ \E u, v \in 1..Len(tasks) : u # v /\ TasksOverlap(tasks[u], tasks[v])
    /\ \E u, v \in 1..Len(tasks) : u # v /\ colors[u] = colors[v]

\* C9: when the colouring has processed every vertex, every flight holds one
\* runway index and the flights counted over all runways are the input flights.
C9_AllFlightsAssigned ==
    ColorDone =>
        /\ \A v \in 1..Len(tasks) : colors[v] \in 1..Len(tasks)
        /\ AssignedCount(colors, num_runways(colors)) = Len(tasks)

C9_Witness ==
    /\ ColorDone
    /\ Len(tasks) = 3
    /\ num_runways(colors) = 2
    /\ AssignedCount(colors, 2) = 3

\* C11: on every flight list the DSatur heuristic uses no more runways than
\* the greedy heuristic does on the same list.
C11_DSaturAtMostGreedy ==
    (ColorDone /\ alg = "dsatur") =>
        num_runways(colors) <= num_runways(ColoringOf("greedy", tasks))

C11_Witness ==
    /\ ColorDone
    /\ alg = "dsatur"
    /\ Len(tasks) = 4
    /\ num_runways(colors) = 2
    /\ num_runways(ColoringOf("greedy", tasks)) = 3

NoOverlaps ==
    \A u, v \in 1..Len(tasks) : u # v => ~TasksOverlap(tasks[u], tasks[v])

AllOverlap ==
    \A u, v \in 1..Len(tasks) : u # v => TasksOverlap(tasks[u], tasks[v])

\* C12: a non-empty flight list without any overlap is scheduled on exactly
\* one runway by each of the three heuristics.
C12_NoOverlapOneRunway ==
    (ColorDone /\ Len(tasks) >= 1 /\ NoOverlaps) => num_runways(colors) = 1

C12_Witness ==
    /\ ColorDone
    /\ Len(tasks) = 3
    /\ NoOverlaps
    /\ \E u, v \in 1..3 : arrival_end(tasks[u]) = tasks[v].start
    /\ num_runways(colors) = 1

\* C13: k flights that overlap pairwise are scheduled on exactly k runways
\* by each of the three heuristics.
C13_AllOverlapKRunways ==
    (ColorDone /\ AllOverlap) => num_runways(colors) = Len(tasks)

C13_Witness ==
    /\ ColorDone
    /\ Len(tasks) = 3
    /\ AllOverlap
    /\ num_runways(colors) = 3

\* C14: two distinct flights a, b are adjacent in the conflict graph exactly
\* when a.start < b.end and b.start < a.end; adjacency is symmetric, and
\* flights with a.end = b.start are not adjacent.
C14_ConflictIffHalfOpenOverlap ==
    mode = "color" =>
        \A u, v \in 1..Len(tasks) : u # v =>
            LET a == tasks[u]
                b == tasks[v]
            IN  /\ (v \in Neighbors(tasks, u)) <=>
                       (a.start < b.start + b.dur /\ b.start < a.start + a.dur)
                /\ (v \in Neighbors(tasks, u)) <=> (u \in Neighbors(tasks, v))
                /\ (a.start + a.dur = b.start) => v \notin Neighbors(tasks, u)

C14_Witness ==
    /\ ColorDone
    /\ \E u, v, w \in 1..Len(tasks) :
           /\ tasks[u].start + tasks[u].dur = tasks[v].start
           /\ v \notin Neighbors(tasks, u)
           /\ colors[u] = colors[v]
           /\ w \in Neighbors(tasks, u)
           /\ colors[w] # colors[u]

\* realized interval of a placed flight
RealStart(f) == tasks[f].start + delayed_by[f]

RealEnd(f) == RealStart(f) + tasks[f].dur

\* C2: no two flights bound to the same runway overlap at their realized
\* (delayed) times, flights placed at the delay ceiling included.
C2_NoOverlapAtRealizedTimes ==
    mode = "constrained" =>
        \A f, g \in 1..Len(tasks) :
            (f # g /\ runway_id[f] # 0 /\ runway_id[f] = runway_id[g])
                => ~IntervalsOverlap(RealStart(f), RealEnd(f), RealStart(g), RealEnd(g))

\* C10: the constrained scheduler terminates, and then every input flight is
\* bound to one runway of the fixed pool 1..max_runways.
C10_TerminatesAllBound ==
    <>(ConDone /\ \A f \in 1..Len(tasks) : runway_id[f] \in 1..max_runways)

C10_Witness ==
    /\ ConDone
    /\ at_ceiling # {}
    /\ \A f \in 1..Len(tasks) : runway_id[f] \in 1..max_runways

\* ---------------------------------------------------------------- duty claims
\* flights a pilot holds in the result
FlightsOf(q) ==
    {assignments[i].flight_id : i \in {j \in 1..Len(assignments) : assignments[j].pilot_id = q}}

RECURSIVE TotalDur(_)
TotalDur(S) ==
    IF S = {} THEN 0
    ELSE LET f == CHOOSE x \in S : TRUE
         IN  tasks[f].dur + TotalDur(S \ {f})

\* g follows f on the same pilot
Follows(q, f, g) ==
    /\ f \in FlightsOf(q)
    /\ g \in FlightsOf(q)
    /\ f # g
    /\ tasks[f].start <= tasks[g].start

RestGap(f, g) == tasks[g].start - (tasks[f].start + tasks[f].dur)

\* C3: in a single-day pilot schedule the durations of the flights assigned
\* to one pilot never add up to more than the configured maximum daily hours.
C3_DailyHoursWithinLimit ==
    mode = "duty" =>
        \A q \in 1..num_pilots : TotalDur(FlightsOf(q)) <= max_daily_hours

C3_Witness ==
    /\ mode = "duty"
    /\ DutyDone
    /\ unassigned_flights # <<>>
    /\ \E q \in 1..num_pilots :
           /\ Cardinality(FlightsOf(q)) >= 2
           /\ TotalDur(FlightsOf(q)) = max_daily_hours

\* C4: in a single-day pilot schedule, whenever one pilot holds two flights
\* the later one starts at least the minimum rest after the earlier one ends
\* (stated for every ordered pair, hence for consecutive ones); and with one
\* pilot and two 2-hour flights starting 3 hours apart under a longer minimum
\* rest, the second flight ends up unassigned.
C4_RestBetweenAssignments ==
    mode = "duty" =>
        /\ \A q \in 1..num_pilots : \A f, g \in 1..Len(tasks) :
               Follows(q, f, g) => RestGap(f, g) >= min_rest_hours
        /\ \A f, g \in 1..Len(tasks) :
               (/\ DutyDone
                /\ num_pilots = 1
                /\ Len(tasks) = 2
                /\ tasks[f].dur = 2
                /\ tasks[g].dur = 2
                /\ tasks[g].start = tasks[f].start + 3
                /\ min_rest_hours > 1)
               => unassigned_flights = <<g>>

C4_Witness ==
    /\ mode = "duty"
    /\ DutyDone
    /\ num_pilots = 1
    /\ \E f, g, h \in 1..Len(tasks) :
           /\ tasks[f].dur = 2
           /\ tasks[g].dur = 2
           /\ tasks[g].start = tasks[f].start + 3
           /\ unassigned_flights = <<g>>
           /\ Follows(1, f, h)
           /\ RestGap(f, h) = min_rest_hours

\* C5: validate_schedule run on the assignments of a finished single-day
\* pilot schedule reports the schedule valid, with no violations.
C5_SingleDayOutputValidates ==
    (mode = "duty" /\ validated) => violations = {}

C5_Witness ==
    /\ mode = "duty"
    /\ validated
    /\ violations = {}
    /\ unassigned_flights # <<>>
    /\ \E q \in 1..num_pilots : Cardinality(FlightsOf(q)) >= 2

\* C6: validate_schedule run on the flattened assignments of a finished
\* multi-day pilot schedule reports the schedule valid, with no violations,
\* even when one pilot's flights over all days add up to more than the
\* daily maximum.
C6_MultiDayOutputValidates ==
    (mode = "multi" /\ validated) => (violations = {} /\ is_valid(violations))

C6_Witness ==
    /\ mode = "multi"
    /\ validated
    /\ is_valid(violations)
    /\ \E q \in 1..num_pilots :
           /\ TotalDur(FlightsOf(q)) > max_daily_hours
           /\ \E i, j \in 1..Len(assignments) :
                  /\ assignments[i].pilot_id = q
                  /\ assignments[j].pilot_id = q
                  /\ assignments[i].day # assignments[j].day

\* C7: at the start of every day of a multi-day schedule each pilot's hours
\* for the day are zero, so a pilot who ended the previous day at the daily
\* maximum passes the daily-hours check again.
C7_HoursZeroAtDayStart ==
    (mode = "multi" /\ cur_day # NoDay /\ day_pos = 0) =>
        \A q \in 1..num_pilots :
            /\ total_hours_today[q] = 0
            /\ \A u \in DutyDurs :
                   can_fly(total_hours_today[q], None, max_daily_hours,
                           min_rest_hours, 24 * cur_day, u)

C7_Witness ==
    /\ mode = "multi"
    /\ cur_day = 1
    /\ day_pos = 0
    /\ \E q \in 1..num_pilots :
           /\ hours_before_reset[q] = max_daily_hours
           /\ total_hours_today[q] = 0

\* the latest end among the flights a pilot holds on earlier days
EarlierDayEnds(q, g) ==
    {tasks[f].start + tasks[f].dur : f \in {h \in FlightsOf(q) : tasks[h].day < tasks[g].day}}

\* C8: the day reset leaves each pilot's last flight end as it was (at the
\* start of a day it still is the end of the last flight the pilot holds),
\* so a flight is given to a pilot only if it starts at least the minimum
\* rest after the end of every flight that pilot holds on an earlier day.
C8_RestAcrossDayBoundary ==
    mode = "multi" =>
        /\ (cur_day # NoDay /\ day_pos = 0) =>
               \A q \in 1..num_pilots :
                   FlightsOf(q) # {} =>
                       last_flight_end[q] =
                           SetMax({tasks[f].start + tasks[f].dur : f \in FlightsOf(q)})
        /\ \A q \in 1..num_pilots : \A g \in FlightsOf(q) :
               \A e \in EarlierDayEnds(q, g) : tasks[g].start - e >= min_rest_hours

C8_Witness ==
    /\ mode = "multi"
    /\ DutyDone
    /\ num_pilots = 1
    /\ \E f, g, h \in 1..Len(tasks) :
           /\ tasks[f].day = 0
           /\ tasks[g].day = 1
           /\ tasks[h].day = 1
           /\ tasks[g].start - (tasks[f].start + tasks[f].dur) < min_rest_hours
           /\ FlightsOf(1) = {f, h}
           /\ unassigned_flights = <<g>>
\* ---------------------------------------------------------------- validator claims
\* assignments i, j of one pilot with no other assignment of that pilot
\* starting between them
ConsecutiveFor(q, i, j) ==
    /\ i # j
    /\ assignments[i].pilot_id = q
    /\ assignments[j].pilot_id = q
    /\ assignments[i].flight_start <= assignments[j].flight_start
    /\ ~\E k \in 1..Len(assignments) :
           /\ k \notin {i, j}
           /\ assignments[k].pilot_id = q
           /\ assignments[i].flight_start < assignments[k].flight_start
           /\ assignments[k].flight_start < assignments[j].flight_start

RestBreach(q) ==
    \E i, j \in 1..Len(assignments) :
        /\ ConsecutiveFor(q, i, j)
        /\ assignments[j].flight_start - assignments[i].flight_end < min_rest_hours

RECURSIVE HoursOf(_, _)
HoursOf(q, k) ==
    IF k = 0 THEN 0
    ELSE (IF assignments[k].pilot_id = q
          THEN assignments[k].flight_end - assignments[k].flight_start
          ELSE 0) + HoursOf(q, k - 1)

HoursBreach(q) == HoursOf(q, Len(assignments)) > max_daily_hours

\* C16: whenever some pilot has two time-consecutive assignments closer than
\* the minimum rest, or assigned durations adding up to more than the daily
\* maximum, validate_schedule returns is_valid = false with a non-empty
\* violation list; and is_valid is true exactly when that list is empty.
C16_ValidatorDetectsBreaches ==
    validated =>
        /\ (\E q \in 1..num_pilots : RestBreach(q) \/ HoursBreach(q)) =>
               (violations # {} /\ ~is_valid(violations))
        /\ is_valid(violations) <=> (violations = {})

C16_Witness ==
    /\ mode = "validate"
    /\ validated
    /\ ~is_valid(violations)
    /\ \E q \in 1..num_pilots : HoursBreach(q) /\ ~RestBreach(q)
    /\ \E v \in violations : v.kind = "daily_hours"

C16_WitnessRest ==
    /\ mode = "validate"
    /\ validated
    /\ \E q \in 1..num_pilots : RestBreach(q) /\ ~HoursBreach(q)
    /\ \E v \in violations : v.kind = "rest"

\* ---------------------------------------------------------------- request claims
\* nothing has been assigned by any scheduler
NothingAssigned ==
    /\ \A v \in DOMAIN colors : colors[v] = 0
    /\ \A f \in DOMAIN runway_id : runway_id[f] = 0
    /\ assignments = <<>>
    /\ unassigned_flights = <<>>

\* C17: a request whose flight list holds a flight with non-positive
\* occupancy is rejected as a whole, whichever scheduler it names: no
\* scheduler starts and no flight of the list is assigned.
C17_MalformedListRejected ==
    (\E i \in 1..Len(tasks) : tasks[i].dur <= 0) =>
        /\ mode \in {"request", "rejected"}
        /\ NothingAssigned

C17_Witness ==
    /\ mode = "rejected"
    /\ Len(tasks) = 2
    /\ tasks[1].dur > 0
    /\ tasks[2].dur = 0
    /\ NothingAssigned

C20_SecondRunSameResult ==
    (mode = "duty" /\ DutyDone /\ first_result # <<>>) =>
        /\ assignments = first_result[1].assignments
        /\ unassigned_flights = first_result[1].unassigned_flights

\* ---------------------------------------------------------------- strategy claims
\* the end of the last flight the pilot holds, from the result
LastEndOf(q) == SetMax({tasks[f].start + tasks[f].dur : f \in FlightsOf(q)})

\* eligibility of pilot q for flight f as the contract states it
EligibleFor(q, f) ==
    /\ TotalDur(FlightsOf(q)) + tasks[f].dur <= max_daily_hours
    /\ FlightsOf(q) = {} \/ tasks[f].start - LastEndOf(q) >= min_rest_hours

EligibleNow == {q \in 1..num_pilots : EligibleFor(q, order[pos])}

\* C21: when the pilot scheduler processes a flight, a pilot is available
\* exactly when hours worked + flight duration <= daily maximum and the
\* pilot has no earlier flight or flight start - last flight end >= minimum
\* rest; both comparisons are non-strict and nothing else is required.
C21_EligibilityExact ==
    (mode = "duty" /\ pos <= Len(order)) => AvailableNow = EligibleNow

C21_Witness ==
    /\ mode = "duty"
    /\ pos <= Len(order)
    /\ \E q \in AvailableNow :
           /\ FlightsOf(q) # {}
           /\ TotalDur(FlightsOf(q)) + tasks[order[pos]].dur = max_daily_hours
           /\ tasks[order[pos]].start - LastEndOf(q) = min_rest_hours
    /\ \E q \in 1..num_pilots : q \notin AvailableNow

AssignedIds == {assignments[i].flight_id : i \in 1..Len(assignments)}

UnassignedIds == {unassigned_flights[i] : i \in 1..Len(unassigned_flights)}

\* C22: in a pilot schedule every processed flight is in exactly one of the
\* assignment list (once, with one pilot of the pool) and the unassigned
\* list (once); a flight in the unassigned list is never in the assignment
\* list; when the run is finished the two lists cover the input, and the
\* compliance rate is 100 * assigned / total (50 for one of two flights).
C22_PartitionAndComplianceRate ==
    mode = "duty" =>
        /\ AssignedIds \cap UnassignedIds = {}
        /\ Cardinality(AssignedIds) = Len(assignments)
        /\ Cardinality(UnassignedIds) = Len(unassigned_flights)
        /\ AssignedIds \cup UnassignedIds = {order[j] : j \in 1..(pos - 1)}
        /\ \A i \in 1..Len(assignments) : assignments[i].pilot_id \in 1..num_pilots
        /\ (DutyDone /\ Len(tasks) >= 1) =>
               LET cr == compliance_rate(Len(assignments), Len(tasks))
               IN  /\ AssignedIds \cup UnassignedIds = 1..Len(tasks)
                   /\ cr = (100 * Len(assignments)) \div Len(tasks)
                   /\ (Len(tasks) = 2 /\ Len(assignments) = 1) => cr = 50

C22_Witness ==
    /\ mode = "duty"
    /\ DutyDone
    /\ num_pilots = 1
    /\ Len(tasks) = 2
    /\ tasks[1].dur = 2
    /\ tasks[2].dur = 2
    /\ tasks[2].start = tasks[1].start + 3
    /\ AssignedIds = {1}
    /\ UnassignedIds = {2}
    /\ compliance_rate(Len(assignments), Len(tasks)) = 50

\* one flight of a single-day run is processed in this step
FlightProcessed == mode = "duty" /\ pos' = pos + 1

\* C23: under each strategy a flight is left unassigned only if no pilot of
\* the pool is eligible for it when it is processed; if some pilot is
\* eligible, the flight is assigned, and to an eligible pilot.
C23_UnassignedOnlyIfNoneEligible ==
    [][FlightProcessed =>
          IF EligibleNow = {}
          THEN /\ unassigned_flights' = Append(unassigned_flights, order[pos])
               /\ assignments' = assignments
          ELSE /\ unassigned_flights' = unassigned_flights
               /\ Len(assignments') = Len(assignments) + 1
               /\ assignments'[Len(assignments')].flight_id = order[pos]
               /\ assignments'[Len(assignments')].pilot_id \in EligibleNow]_vars

C23_Witness ==
    /\ mode = "duty"
    /\ DutyDone
    /\ alg = "round_robin"
    /\ num_pilots = 2
    /\ Len(unassigned_flights) = 1
    /\ assignments[1].pilot_id = 1
    /\ assignments[2].pilot_id = 2
    /\ unassigned_flights[1] = order[3]

\* C24: under round-robin the search for a pilot ends for every flight: when
\* no pilot of a non-empty pool can fly the flight at position k, the pointer
\* passes each pilot at most once for that flight, the flight is marked
\* unassigned and the scheduler moves on to position k + 1; the whole run
\* finishes.
C24_RoundRobinSearchTerminates ==
    /\ [](mode = "round_robin" => pilots_tried <= num_pilots)
    /\ \A k \in 1..MaxDutyTasks :
           (/\ mode = "round_robin"
            /\ num_pilots >= 1
            /\ pos = k
            /\ k <= Len(order)
            /\ EligibleNow = {})
           ~> (pos = k + 1 /\ order[k] \in UnassignedIds)
    /\ (mode = "round_robin") ~> RoundRobinDone

\* C25: under least-busy each assigned flight goes to a pilot whose hours
\* worked are minimal among the pilots eligible for the flight when it is
\* processed, and among several such pilots to the one with the smallest id.
C25_LeastBusyMinimalHours ==
    [][(FlightProcessed /\ alg = "least_busy" /\ EligibleNow # {}) =>
          LET q == assignments'[Len(assignments')].pilot_id
          IN  /\ q \in EligibleNow
              /\ \A r \in EligibleNow :
                     \/ TotalDur(FlightsOf(q)) < TotalDur(FlightsOf(r))
                     \/ TotalDur(FlightsOf(q)) = TotalDur(FlightsOf(r)) /\ q <= r]_vars

C25_Witness ==
    /\ mode = "duty"
    /\ alg = "least_busy"
    /\ num_pilots = 2
    /\ Len(assignments) = 3
    /\ assignments[1].pilot_id = 1
    /\ assignments[2].pilot_id = 2
    /\ assignments[2].flight_start - assignments[1].flight_end >= min_rest_hours
    /\ assignments[3].pilot_id = 1
    /\ assignments[3].flight_start - assignments[2].flight_end >= min_rest_hours
    /\ TotalDur(FlightsOf(1)) <= max_daily_hours - 1

\* ------------------------------------------------------ constrained claims
Placed == {f \in 1..Len(tasks) : runway_id[f] # 0}

\* C26: in a constrained schedule every placed flight's realized delay is a
\* non-negative integer multiple of the delay increment and is at most the
\* delay ceiling, and the flight's end is its delayed start plus its duration.
C26_DelayMultipleWithinCeiling ==
    mode = "constrained" =>
        \A f \in Placed :
            /\ \E k \in 0..MAX_DELAY : delayed_by[f] = k * DELAY_INCREMENT
            /\ delayed_by[f] <= MAX_DELAY
            /\ arrival_end(Delayed(tasks[f], delayed_by[f])) =
                   tasks[f].start + delayed_by[f] + tasks[f].dur

C26_Witness ==
    /\ ConDone
    /\ \E f, g, h \in Placed :
           /\ delayed_by[f] = 0
           /\ delayed_by[g] = DELAY_INCREMENT
           /\ delayed_by[h] = MAX_DELAY

\* flights processed before flight f
ProcessedBefore(f) ==
    {order[j] : j \in {i \in 1..Len(order) : \E k \in (i + 1)..Len(order) : order[k] = f}}

\* some runway holds no earlier flight overlapping flight f pushed back by d
FreeWhenProcessed(f, d) ==
    \E r \in 1..max_runways :
        \A g \in ProcessedBefore(f) :
            runway_id[g] = r =>
                ~IntervalsOverlap(tasks[f].start + d, tasks[f].start + d + tasks[f].dur,
                                  RealStart(g), RealEnd(g))

PositiveDelays == {k * DELAY_INCREMENT : k \in 1..(MAX_DELAY \div DELAY_INCREMENT)}

FreeDelays(f) == {d \in PositiveDelays : FreeWhenProcessed(f, d)}

\* C27 as stated: in a finished schedule a flight has delay 0 exactly when
\* some runway was free at its requested interval when it was processed;
\* otherwise the delay is the smallest positive multiple of the increment, up
\* to the ceiling, at which some runway has no overlapping assigned flight.
C27_DelayIsSmallestFreeMultiple ==
    ConDone =>
        \A f \in Placed :
            /\ delayed_by[f] = 0 <=> FreeWhenProcessed(f, 0)
            /\ delayed_by[f] # 0 =>
                   /\ delayed_by[f] \in FreeDelays(f)
                   /\ \A d \in FreeDelays(f) : delayed_by[f] <= d

\* What the retry loop guarantees in a finished schedule: as above for every
\* flight that found a slot; a flight for which no runway is free at any
\* multiple of the increment up to the ceiling has the ceiling as its delay
\* and is listed as delayed to the ceiling.
SmallestFreeMultipleOrCeiling ==
    ConDone =>
        \A f \in Placed :
            /\ delayed_by[f] = 0 <=> FreeWhenProcessed(f, 0)
            /\ (delayed_by[f] # 0 /\ FreeDelays(f) # {}) =>
                   /\ delayed_by[f] \in FreeDelays(f)
                   /\ \A d \in FreeDelays(f) : delayed_by[f] <= d
                   /\ f \notin at_ceiling
            /\ (delayed_by[f] # 0 /\ FreeDelays(f) = {}) =>
                   /\ delayed_by[f] = MAX_DELAY
                   /\ f \in at_ceiling

\* ------------------------------------------------------------ App claims
\* C28: every handler that sets loading to true sets it back to false when its
\* request settles, resolved or rejected, and a rejection's message is stored
\* in error; loading is false whenever no handler's request is pending, and
\* a handler run that sends no request does not leave loading set.
C28_LoadingClearedWhenSettled ==
    /\ [](mode = "app" /\ UserPending = {} => loading = FALSE)
    /\ [][(mode = "app" /\ settled' # Null /\ settled'[1].handler \in LoadingHandlers) =>
             /\ loading' = FALSE
             /\ settled'[1].rejected => error' = Some(settled'[1].message)]_vars
    /\ [][(mode = "app" /\ calls' = calls + 1 /\ pending' = pending) =>
             (loading' => loading)]_vars

C28_Witness ==
    /\ mode = "app"
    /\ settled = Some([handler |-> "runFullDemo", rejected |-> TRUE,
                       message |-> "Network Error"])
    /\ error = Some("Network Error")
    /\ loading = FALSE
    /\ UserPending = {}
    /\ scheduleResult # Null

\* C30: at most one request started by a button is in flight; while loading
\* is true every request button of every view is disabled, and loading is
\* true while a request is in flight.
C30_OneRequestInFlight ==
    mode = "app" =>
        /\ Cardinality(UserPending) <= 1
        /\ UserPending # {} => loading
        /\ loading =>
               \A v \in Views : \A h \in ButtonsOf(v) :
                   Disabled(h, loading, scheduleDest, generatedFlights)

C30_Witness ==
    /\ mode = "app"
    /\ view = "schedule"
    /\ scheduleResult # Null
    /\ Len(pending) = 2
    /\ pending[1].handler = "loadAirports"
    /\ pending[2].handler = "findRoute"
    /\ loading
    /\ calls = 2
====
